---------------------------- MODULE Spec2Model ----------------------------
(***************************************************************************)
(* Model of the job orchestration and progress tracking of the Twitter     *)
(* video downloader web server (src/web_server.py, src/twitter_downloader  *)
(* .py).                                                                   *)
(*                                                                         *)
(* Strings the code inspects are sequences of tokens: a URL is a sequence  *)
(* of lexical pieces, an engine error message is a sequence of characters, *)
(* a percent string is a sequence <<padding, number, "%">>.  Strings the   *)
(* code only passes around are one-token sequences or plain strings.       *)
(* A Python dict is a function whose DOMAIN is its key set; an optional    *)
(* value is a set with at most one element.                                *)
(***************************************************************************)
EXTENDS Integers, Sequences, FiniteSets, TLC

(***************************************************************************)
(* Bounds of the model.                                                    *)
(***************************************************************************)
\* number of POST /download requests the model lets arrive
MaxJobs == 2
\* last value of int(time.time()) the model reaches (the clock starts at 0)
MaxClock == 1
\* number of progress-hook calls the engine makes during one Fetch
MaxHooks == 2
\* number of chunks the engine process writes to one streaming response
MaxChunks == 2
\* longest info['formats'] list among the descriptors handed to the ranking
MaxFormats == 3

JobIds == 1..MaxJobs
Ticks == 0..MaxClock
\* an identifier that POST /download never hands out ("download_<t>" is
\* modelled by the integer t)
BogusId == -1
PollIds == Ticks \cup {BogusId}

None == "<None>"

(***************************************************************************)
(* str.strip(): drop leading and trailing whitespace tokens.               *)
(***************************************************************************)
IsSpace(t) == t = " "

RECURSIVE LStrip(_)
LStrip(s) == IF s # <<>> /\ IsSpace(Head(s)) THEN LStrip(Tail(s)) ELSE s

RECURSIVE RStrip(_)
RStrip(s) ==
    IF s # <<>> /\ IsSpace(s[Len(s)]) THEN RStrip(SubSeq(s, 1, Len(s) - 1)) ELSE s

Strip(s) == RStrip(LStrip(s))

(***************************************************************************)
(* TwitterDownloader.is_valid_twitter_url: re.match of three patterns,     *)
(* anchored at the start only.  A pattern is a sequence of token classes.  *)
(***************************************************************************)
SchemeTok == {"http://", "https://"}
\* tokens wholly made of \w characters
WordTok == {"user", "status", "123", "abc"}
\* tokens that start with a \d character (\d+ matches a prefix of them)
DigitTok == {"123", "123abc"}

StatusPath == <<{"/"}, WordTok \cup DigitTok, {"/"}, {"status"}, {"/"}, DigitTok>>

twitter_patterns ==
    { <<SchemeTok>> \o www \o <<{host}>> \o StatusPath :
          www \in {<<>>, <<{"www."}>>}, host \in {"twitter.com", "x.com"} }
    \cup { <<SchemeTok, {"t.co"}, {"/"}, WordTok \cup DigitTok>> }

ReMatch(pattern, s) ==
    /\ Len(s) >= Len(pattern)
    /\ \A i \in 1..Len(pattern) : s[i] \in pattern[i]

is_valid_twitter_url(url) == \E pattern \in twitter_patterns : ReMatch(pattern, url)

\* raw "url" fields of request bodies
Urls ==
    { <<>>,
      <<" ">>,
      <<"not-a-url">>,
      <<" ", "https://", "x.com", "/", "user", "/", "status", "/", "123">>,
      <<"https://", "www.", "t.co", "/", "abc">> }

(***************************************************************************)
(* Engine error messages: character sequences, with str.lower() and the    *)
(* substring test `in`.                                                    *)
(***************************************************************************)
LowerChar(c) ==
    CASE c = "P" -> "p" [] c = "R" -> "r" [] c = "O" -> "o" [] c = "T" -> "t"
      [] c = "E" -> "e" [] c = "C" -> "c" [] c = "D" -> "d" [] c = "N" -> "n"
      [] c = "F" -> "f" [] c = "U" -> "u" [] c = "I" -> "i" [] c = "V" -> "v"
      [] c = "A" -> "a" [] OTHER -> c

Lower(s) == [i \in 1..Len(s) |-> LowerChar(s[i])]

Contains(sub, s) ==
    \E i \in 1..(Len(s) - Len(sub) + 1) : SubSeq(s, i, i + Len(sub) - 1) = sub

StrPrivate == <<"P", "r", "i", "v", "a", "t", "e">>
StrProtected == <<"p", "r", "o", "t", "e", "c", "t", "e", "d">>
StrNotFound == <<"n", "o", "t", " ", "f", "o", "u", "n", "d">>

\* str(e) of the errors the engine raises in the model
EngineMsgs ==
    { <<"P", "r", "i", "v", "a", "t", "e">>,
      <<"p", "r", "i", "v", "a", "t", "e">>,
      <<"N", "o", "t", " ", "F", "o", "u", "n", "d">> }

\* str(e) of an exception that is not a DownloadError
OtherMsgs == { <<"b", "o", "o", "m">> }


(***************************************************************************)
(* The extraction engine (yt_dlp) is an external collaborator: what        *)
(* extract_info and download answer is a nondeterministic choice.          *)
(***************************************************************************)
\* one entry of info['formats']; an absent or None field is None (strings)
\* or the empty set (numbers)
Fmt(id, vcodec, url, height, tbr, resolution, note) ==
    [format_id |-> id, vcodec |-> vcodec, url |-> url, height |-> height,
     tbr |-> tbr, resolution |-> resolution, format_note |-> note]

F720 == Fmt("hd", "h264", "u1", {720}, {2000}, "1280x720", "720p")
F480 == Fmt("sd", "h264", "u2", {480}, {1000}, "854x480", None)
FAudio == Fmt("au", "none", "u3", {}, {128}, "audio only", None)
FNoUrl == Fmt("nu", "h264", None, {360}, {}, None, None)

\* info['formats'] of the descriptors the engine answers in the model
Descriptors == { <<F720, F480>>, <<FAudio>>, <<FNoUrl>>, <<>> }

\* what ydl.extract_info answers: a descriptor, nothing, or an exception
ProbeAnswers(descriptors, msgs) ==
    { [kind |-> "info", formats |-> d, msg |-> <<>>] : d \in descriptors }
    \cup { [kind |-> "none", formats |-> <<>>, msg |-> <<>>] }
    \cup { [kind |-> "DownloadError", formats |-> <<>>, msg |-> m] : m \in msgs }
    \cup { [kind |-> "Exception", formats |-> <<>>, msg |-> m] : m \in OtherMsgs }

ProbeOutcomes == ProbeAnswers(Descriptors, EngineMsgs)

\* "quiet_failure": with 'ignoreerrors': True the engine reports a failed
\* download and returns normally
FetchAnswers(msgs) ==
    { [kind |-> k, msg |-> <<>>] : k \in {"ok", "quiet_failure"} }
    \cup { [kind |-> "DownloadError", msg |-> m] : m \in msgs }
    \cup { [kind |-> "Exception", msg |-> m] : m \in OtherMsgs }

FetchOutcomes == FetchAnswers(EngineMsgs)

\* one engine answer of each kind, for the specifications that interleave
\* several jobs
BasicProbeOutcomes == ProbeAnswers({<<F720, F480>>, <<FAudio>>}, {StrPrivate})
BasicFetchOutcomes == FetchAnswers({StrPrivate})
BasicFormatIds == {None}
BasicUrls ==
    { <<" ">>,
      <<"not-a-url">>,
      <<" ", "https://", "x.com", "/", "user", "/", "status", "/", "123">> }

\* values of the optional "format_id" field of a request body
FormatIds == {None, "hd", "zz"}

Truthy(format_id) == format_id # None /\ format_id # ""

(***************************************************************************)
(* Result payloads of WebTwitterDownloader.download_video_web.             *)
(***************************************************************************)
Failure(error, message) == [success |-> FALSE, error |-> error, message |-> message]

InvalidUrlResult ==
    Failure("Invalid Twitter URL format", <<"Please provide a valid Twitter/X URL">>)
NoVideoFoundResult == Failure("No video found", <<"No video found at this URL">>)
NoVideoContentResult ==
    Failure("No video content", <<"This tweet contains no video content">>)

\* except yt_dlp.DownloadError as e / except Exception as e
ClassifyError(kind, error_msg) ==
    IF kind = "DownloadError"
    THEN IF Contains(StrPrivate, error_msg) \/ Contains(StrProtected, Lower(error_msg))
         THEN Failure("Private account", <<"This tweet is from a private account">>)
         ELSE IF Contains(StrNotFound, Lower(error_msg))
              THEN Failure("Tweet not found",
                           <<"Tweet not found - it might have been deleted">>)
              ELSE Failure("Download error", error_msg)
    ELSE Failure("Unexpected error", error_msg)

\* next((f for f in formats if f.get('format_id') == format_id), None)
SelectedFormat(formats, format_id) ==
    LET hits == {i \in 1..Len(formats) : formats[i].format_id = format_id}
    IN  IF Truthy(format_id) /\ hits # {}
        THEN {formats[CHOOSE i \in hits : \A k \in hits : i <= k]}
        ELSE {}

SuccessResult(formats, format_id) ==
    LET sel == SelectedFormat(formats, format_id)
    IN  [success |-> TRUE,
         format_info |->
            IF sel = {}
            THEN [quality |-> "Auto", resolution |-> "Best available"]
            ELSE LET f == CHOOSE x \in sel : TRUE
                 IN  [quality |-> IF f.format_note = None THEN "Auto" ELSE f.format_note,
                      resolution |-> IF f.resolution = None THEN "Unknown"
                                     ELSE f.resolution]]

\* video_formats = [f for f in formats if f.get('vcodec') != 'none']
JobVideoFormats(formats) == SelectSeq(formats, LAMBDA f : f.vcodec # "none")

(***************************************************************************)
(* WebTwitterDownloader.get_video_info_web: filter, sort, classify.        *)
(***************************************************************************)
\* lines 86-98: the quality_info dict built for one format
QualityInfo(f) ==
    [format_id |-> f.format_id,
     quality |-> IF f.format_note = None THEN "Unknown" ELSE f.format_note,
     resolution |-> IF f.resolution = None THEN "Unknown" ELSE f.resolution,
     height |-> f.height, tbr |-> f.tbr]

\* lines 84-99: if f.get('vcodec') != 'none' and f.get('url')
RECURSIVE InfoVideoFormats(_)
InfoVideoFormats(formats) ==
    IF formats = <<>> THEN <<>>
    ELSE LET f == Head(formats)
         IN  (IF f.vcodec # "none" /\ Truthy(f.url) THEN <<QualityInfo(f)>> ELSE <<>>)
             \o InfoVideoFormats(Tail(formats))

\* The sort key is (x.get('height', 0), x.get('tbr', 0)); every quality_info
\* has both keys, so a missing value is None, never the default 0.
\* Comparing two keys raises TypeError when the first components that differ
\* are None and a number.
KeyCmpRaises(a, b) ==
    IF a.height # b.height
    THEN a.height = {} \/ b.height = {}
    ELSE a.tbr # b.tbr /\ (a.tbr = {} \/ b.tbr = {})

Num(opt) == CHOOSE n \in opt : TRUE

\* key(a) > key(b), for keys whose comparison does not raise
KeyGreater(a, b) ==
    IF a.height # b.height THEN Num(a.height) > Num(b.height)
    ELSE a.tbr # b.tbr /\ Num(a.tbr) > Num(b.tbr)

\* list.sort raises when some pair it has to compare raises: the list mixes
\* None and numeric heights, or two entries of equal height mix None and
\* numeric bitrates
SortRaises(fs) == \E i, k \in 1..Len(fs) : KeyCmpRaises(fs[i], fs[k])

\* stable insertion of x behind the entries that are not smaller
RECURSIVE InsertDesc(_, _)
InsertDesc(x, sorted) ==
    IF sorted = <<>> THEN <<x>>
    ELSE IF KeyGreater(x, Head(sorted)) THEN <<x>> \o sorted
         ELSE <<Head(sorted)>> \o InsertDesc(x, Tail(sorted))

\* video_formats.sort(key=..., reverse=True): descending and stable
RECURSIVE SortDesc(_)
SortDesc(fs) ==
    IF fs = <<>> THEN <<>>
    ELSE InsertDesc(fs[Len(fs)], SortDesc(SubSeq(fs, 1, Len(fs) - 1)))

TypeErrorMsg == <<"'<' not supported between instances of 'NoneType' and 'int'">>

\* lines 59-148, with `out` what ydl.extract_info answers when it is called
get_video_info_web(url, out) ==
    IF ~is_valid_twitter_url(url) THEN InvalidUrlResult
    ELSE CASE out.kind = "none" -> NoVideoFoundResult
           [] out.kind = "info" ->
                 LET video_formats == InfoVideoFormats(out.formats)
                 IN  IF video_formats = <<>> THEN NoVideoContentResult
                     ELSE IF SortRaises(video_formats)
                          THEN Failure("Unexpected error", TypeErrorMsg)
                          ELSE [success |-> TRUE, formats |-> SortDesc(video_formats)]
           [] OTHER -> ClassifyError(out.kind, out.msg)

\* whether get_video_info_web(url, .) calls ydl.extract_info
InfoProbes(url) == IF is_valid_twitter_url(url) THEN 1 ELSE 0

UrlRequired == [success |-> FALSE, error |-> "URL is required"]

(***************************************************************************)
(* Progress records (values of the download_progress dict).  message is    *)
(* <<>> and result is {} when the dict has no such key.                    *)
(***************************************************************************)
Pct(n) == <<n, "%">>

Progress(status, percent, message) ==
    [status |-> status, percent |-> percent, message |-> message, result |-> {}]

StartingRec == Progress("starting", Pct("0"), <<"Initializing download...">>)
ExtractingRec == Progress("extracting", Pct("0"), <<"Extracting video information...">>)
CompletedRec == Progress("completed", Pct("100"), <<"Download completed successfully!">>)
ErrorRec(message) == Progress("error", Pct("0"), message)
UnknownRec == Progress("unknown", Pct("0"), <<"Unknown progress ID">>)

\* the dict the engine passes to a progress hook: percent is a set holding
\* d['_percent_str'] when the key is there; pnone says its value is None
HookArgs ==
    { [status |-> "downloading", percent |-> p, pnone |-> FALSE] :
          p \in {{}, {<<" ", "50.0", "%">>}} }
    \cup { [status |-> "downloading", percent |-> {}, pnone |-> TRUE],
           [status |-> "finished", percent |-> {}, pnone |-> FALSE],
           [status |-> "error", percent |-> {}, pnone |-> FALSE] }


(***************************************************************************)
(* State.                                                                  *)
(***************************************************************************)
VARIABLES
    clock,              \* int(time.time())
    download_progress,  \* the global dict: progress id -> progress record
    download_results,   \* the global dict: progress id -> result payload
    job,                \* per POST /download request: handler and thread
    poll,               \* the GET /progress request in flight
    lastResp,           \* the last answer of GET /progress (at most one)
    info,               \* the POST /video_info request
    stream              \* the POST /stream_download request and its response

vars == <<clock, download_progress, download_results, job, poll, lastResp, info, stream>>

\* A request that has not arrived, and the fields of one that has:
\*   pc          where the handler / the background thread stands
\*   progress_id, url, format_id   the closure of download_thread
\*   formats     info['formats'] while download_video_web holds info
\*   result      what download_video_web returned
\*   hooks, probes, fetches   calls of the hook, extract_info, download
\*   extracted   the run wrote the 'extracting' record
\*   answer      kind and message of what the engine call that ended last
\*               inside download_video_web answered
IdleJob ==
    [pc |-> "idle", progress_id |-> BogusId, url |-> <<>>, format_id |-> None,
     formats |-> <<>>, result |-> {}, hooks |-> 0, probes |-> 0, fetches |-> 0,
     extracted |-> FALSE, answer |-> {}]

\* GET /progress in flight: `progress` refers to the dict stored under id, or,
\* when `detached` holds one, to a dict that is not (or no longer) stored
IdlePoll == [pc |-> "idle", id |-> BogusId, detached |-> {}]

\* url: the stripped url; response: the payload answered; probes: calls of
\* ydl.extract_info; answer: what ydl.extract_info answered
IdleInfo == [pc |-> "idle", url |-> <<>>, response |-> {}, probes |-> 0, answer |-> {}]

\* as IdleInfo, and: format_id of the request; selected: the format_id handed
\* to the yt-dlp process; popens: calls of subprocess.Popen; alive: the
\* process runs; reaped: process.wait() returned; chunks: chunks yielded to
\* the response; ended: how the response body came to its end
IdleStream ==
    [pc |-> "idle", url |-> <<>>, format_id |-> None, response |-> {}, probes |-> 0,
     answer |-> {}, selected |-> None, popens |-> 0, alive |-> FALSE, reaped |-> FALSE,
     chunks |-> 0, ended |-> None]

Init ==
    /\ clock = 0
    /\ download_progress = <<>>
    /\ download_results = <<>>
    /\ job = [j \in JobIds |-> IdleJob]
    /\ poll = IdlePoll
    /\ lastResp = {}
    /\ info = IdleInfo
    /\ stream = IdleStream

\* d[key] = value
DictSet(d, key, value) == (key :> value) @@ d

\* download_progress[progress_id] = {...}: the key is bound to a new dict
\* object, so a reference a GET /progress handler took earlier is no longer
\* to the stored dict
SetProgress(progress_id, rec) ==
    /\ download_progress' = DictSet(download_progress, progress_id, rec)
    /\ poll' = IF poll.pc = "read" /\ poll.id = progress_id /\ poll.detached = {}
               THEN [poll EXCEPT !.detached = {download_progress[progress_id]}]
               ELSE poll

\* the clock advances
Tick ==
    /\ clock < MaxClock
    /\ clock' = clock + 1
    /\ UNCHANGED <<download_progress, download_results, job, poll, lastResp, info, stream>>

(***************************************************************************)
(* POST /download                                                          *)
(***************************************************************************)
\* f"download_{int(time.time())}"
NewProgressId(now) == now

\* lines 265-313: read the body, reject an empty url, derive the id, register
\* the job as 'starting', start the thread and answer with the id
download_video(j, rawUrl, format_id) ==
    /\ job[j].pc = "idle"
    /\ \A k \in 1..(j - 1) : job[k].pc # "idle"
    /\ LET url == Strip(rawUrl)
           progress_id == NewProgressId(clock)
       IN  IF url = <<>>
           THEN /\ job' = [job EXCEPT ![j].pc = "rejected"]
                /\ UNCHANGED <<download_progress, poll>>
           ELSE /\ SetProgress(progress_id, StartingRec)
                /\ job' = [job EXCEPT ![j] =
                      [IdleJob EXCEPT !.pc = "start", !.url = url,
                                      !.format_id = format_id,
                                      !.progress_id = progress_id]]
    /\ UNCHANGED <<info, stream, clock, download_results, lastResp>>

\* the requests that answered with a progress id, and the ids they answered
Returned(j) == job[j].pc \notin {"idle", "rejected"}
Issued == {job[j].progress_id : j \in {k \in JobIds : Returned(k)}}

(***************************************************************************)
(* download_thread: the background run of one job.                         *)
(***************************************************************************)
\* ThreadStart without the validation of lines 152-157
ThreadStartUnchecked(j) ==
    /\ job[j].pc = "start"
    /\ SetProgress(job[j].progress_id, ExtractingRec)
    /\ job' = [job EXCEPT ![j].pc = "probe", ![j].extracted = TRUE]
    /\ UNCHANGED <<info, stream, clock, download_results, lastResp>>

\* lines 287-288, 152-165: validate the url, then publish 'extracting'
ThreadStart(j) ==
    /\ job[j].pc = "start"
    /\ IF ~is_valid_twitter_url(job[j].url)
       THEN /\ job' = [job EXCEPT ![j].pc = "store", ![j].result = {InvalidUrlResult}]
            /\ UNCHANGED <<download_progress, poll>>
       ELSE /\ SetProgress(job[j].progress_id, ExtractingRec)
            /\ job' = [job EXCEPT ![j].pc = "probe", ![j].extracted = TRUE]
    /\ UNCHANGED <<info, stream, clock, download_results, lastResp>>

\* Probe with a handler that calls ydl.extract_info again when it raised
ProbeRetrying(j, out) ==
    /\ job[j].pc = "probe"
    /\ job' = [job EXCEPT ![j] =
          LET called == [@ EXCEPT !.probes = @ + 1,
                                  !.answer = {[kind |-> out.kind, msg |-> out.msg]}]
              fail(r) == [called EXCEPT !.pc = "store", !.result = {r}]
          IN  CASE out.kind = "none" -> fail(NoVideoFoundResult)
                [] out.kind = "info" ->
                      IF JobVideoFormats(out.formats) = <<>>
                      THEN fail(NoVideoContentResult)
                      ELSE [called EXCEPT !.pc = "fetch", !.formats = out.formats,
                                          !.fetches = @ + 1]
                [] OTHER -> IF job[j].probes = 0 THEN called
                            ELSE fail(ClassifyError(out.kind, out.msg))]
    /\ UNCHANGED <<info, stream, clock, download_progress, download_results, poll, lastResp>>

\* lines 168-195: ydl.extract_info(url, download=False) answers `out`; on a
\* descriptor with video formats the run goes on to call ydl.download
Probe(j, out) ==
    /\ job[j].pc = "probe"
    /\ job' = [job EXCEPT ![j] =
          LET called == [@ EXCEPT !.probes = @ + 1,
                                  !.answer = {[kind |-> out.kind, msg |-> out.msg]}]
              fail(r) == [called EXCEPT !.pc = "store", !.result = {r}]
          IN  CASE out.kind = "none" -> fail(NoVideoFoundResult)
                [] out.kind = "info" ->
                      IF JobVideoFormats(out.formats) = <<>>
                      THEN fail(NoVideoContentResult)
                      ELSE [called EXCEPT !.pc = "fetch", !.formats = out.formats,
                                          !.fetches = @ + 1]
                [] OTHER -> fail(ClassifyError(out.kind, out.msg))]
    /\ UNCHANGED <<info, stream, clock, download_progress, download_results, poll, lastResp>>

\* lines 35-57: _progress_hook(d), called by the engine inside ydl.download
ProgressHook(j, d) ==
    /\ job[j].pc = "fetch"
    /\ job[j].hooks < MaxHooks
    /\ job' = [job EXCEPT ![j].hooks = @ + 1]
    /\ CASE d.status = "downloading" /\ ~d.pnone ->
              LET raw == IF d.percent = {} THEN Pct("0")
                         ELSE CHOOSE p \in d.percent : TRUE
              IN  SetProgress(job[j].progress_id,
                              Progress("downloading", Strip(raw), <<>>))
         [] d.status = "finished" ->
              SetProgress(job[j].progress_id, Progress("finished", Pct("100"), <<>>))
         \* None.strip() raises inside try/except: pass; other statuses are ignored
         [] OTHER -> UNCHANGED <<download_progress, poll>>
    /\ UNCHANGED <<info, stream, clock, download_results, lastResp>>

\* lines 195-243: ydl.download([url]) ends with `out`; its return value is
\* not looked at, so a failure the engine only reports counts as success
FetchReturn(j, out) ==
    /\ job[j].pc = "fetch"
    /\ job' = [job EXCEPT ![j].pc = "store", ![j].formats = <<>>, ![j].hooks = 0,
                          ![j].answer = {out},
                          ![j].result =
                              IF out.kind \in {"ok", "quiet_failure"}
                              THEN {SuccessResult(job[j].formats, job[j].format_id)}
                              ELSE {ClassifyError(out.kind, out.msg)}]
    /\ UNCHANGED <<info, stream, clock, download_progress, download_results, poll, lastResp>>

\* StoreResult without the assignment of line 289
StoreResultDropped(j) ==
    /\ job[j].pc = "store"
    /\ job' = [job EXCEPT ![j].pc = "final"]
    /\ UNCHANGED <<info, stream, clock, download_progress, download_results, poll, lastResp>>

\* line 289: download_results[progress_id] = result
StoreResult(j) ==
    /\ job[j].pc = "store"
    /\ download_results' =
           DictSet(download_results, job[j].progress_id, CHOOSE r \in job[j].result : TRUE)
    /\ job' = [job EXCEPT ![j].pc = "final"]
    /\ UNCHANGED <<info, stream, clock, download_progress, poll, lastResp>>

\* Final without the else branch of lines 297-302
FinalSuccessOnly(j) ==
    /\ job[j].pc = "final"
    /\ LET result == CHOOSE r \in job[j].result : TRUE
       IN  IF result.success
           THEN SetProgress(job[j].progress_id, CompletedRec)
           ELSE UNCHANGED <<download_progress, poll>>
    /\ job' = [job EXCEPT ![j].pc = "done", ![j].result = {}, ![j].format_id = None,
                          ![j].answer = {}]
    /\ UNCHANGED <<info, stream, clock, download_results, lastResp>>

\* lines 291-302: publish 'completed' or 'error'; the thread ends and its
\* locals are gone
Final(j) ==
    /\ job[j].pc = "final"
    /\ LET result == CHOOSE r \in job[j].result : TRUE
       IN  SetProgress(job[j].progress_id,
                       IF result.success THEN CompletedRec ELSE ErrorRec(result.message))
    /\ job' = [job EXCEPT ![j].pc = "done", ![j].result = {}, ![j].format_id = None,
                          ![j].answer = {}]
    /\ UNCHANGED <<info, stream, clock, download_results, lastResp>>

(***************************************************************************)
(* GET /progress/<progress_id>                                             *)
(***************************************************************************)
\* GetProgressRead with download_progress.setdefault in place of .get
GetProgressReadSetDefault(id) ==
    /\ poll.pc = "idle"
    /\ poll' = [pc |-> "read", id |-> id, detached |-> {}]
    /\ download_progress' = IF id \in DOMAIN download_progress THEN download_progress
                            ELSE DictSet(download_progress, id, UnknownRec)
    /\ UNCHANGED <<info, stream, clock, download_results, job, lastResp>>

\* lines 318-322: progress = download_progress.get(progress_id, {...}), a
\* reference to the stored dict when the id is known
GetProgressRead(id) ==
    /\ poll.pc = "idle"
    /\ poll' = [pc |-> "read", id |-> id,
                detached |-> IF id \in DOMAIN download_progress THEN {}
                             ELSE {UnknownRec}]
    /\ UNCHANGED <<info, stream, clock, download_progress, download_results, job, lastResp>>

\* the dict `progress` refers to, and the result looked up for it
Referred ==
    IF poll.detached = {} THEN download_progress[poll.id]
    ELSE CHOOSE p \in poll.detached : TRUE

LookedUp ==
    IF poll.id \in DOMAIN download_results THEN {download_results[poll.id]} ELSE {}

\* what jsonify(progress) answers when the handler finishes in this state
Response == IF LookedUp # {} THEN [Referred EXCEPT !.result = LookedUp] ELSE Referred

\* lines 324-328: result = download_results.get(progress_id); if there is one,
\* progress['result'] = result writes into the referred dict; answer with it
GetProgressWrite ==
    /\ poll.pc = "read"
    /\ download_progress' =
           IF poll.detached = {}
           THEN [download_progress EXCEPT ![poll.id] = Response]
           ELSE download_progress
    /\ poll' = IdlePoll
    /\ UNCHANGED <<info, stream, clock, download_results, job>>

\* ... with the answer written down for the client that polls: the id asked
\* for, whether POST /download has handed it out, and the payload
GetProgressAnswer ==
    /\ GetProgressWrite
    /\ lastResp' = {[id |-> poll.id, issued |-> poll.id \in Issued, progress |-> Response]}

\* ... with no client writing the answer down
GetProgressUnobserved == GetProgressWrite /\ UNCHANGED lastResp

(***************************************************************************)
(* POST /video_info and POST /stream_download                              *)
(***************************************************************************)
jobVars == <<clock, download_progress, download_results, job, poll, lastResp>>

\* lines 250-262; `out` is what ydl.extract_info answers if it is called
get_video_info(rawUrl, out) ==
    /\ info.pc = "idle"
    /\ LET url == Strip(rawUrl)
       IN  info' = IF url = <<>>
                   THEN [IdleInfo EXCEPT !.pc = "answered", !.response = {UrlRequired}]
                   ELSE [pc |-> "answered", url |-> url,
                         response |-> {get_video_info_web(url, out)},
                         probes |-> InfoProbes(url),
                         answer |-> IF InfoProbes(url) = 1 THEN {out} ELSE {}]
    /\ UNCHANGED <<jobVars, stream>>

\* lines 395-404: the format asked for, looked up in the list
\* get_video_info_web answered, else the head of that list
StreamFormat(formats, format_id) ==
    LET hits == {i \in 1..Len(formats) : formats[i].format_id = format_id}
    IN  IF Truthy(format_id) /\ hits # {}
        THEN formats[CHOOSE i \in hits : \A k \in hits : i <= k]
        ELSE formats[1]

\* lines 373-442: what the handler leaves behind when it returns: a json
\* answer, or a response whose body generate() has not begun to produce
StreamRequest(rawUrl, format_id, out) ==
    LET url == Strip(rawUrl)
        asked == [IdleStream EXCEPT !.url = url, !.format_id = format_id]
        json(r) == [asked EXCEPT !.pc = "answered", !.response = {r}]
    IN  IF url = <<>> THEN json(UrlRequired)
        ELSE IF ~is_valid_twitter_url(url) THEN json(InvalidUrlResult)
        ELSE LET info_result == get_video_info_web(url, out)
                 probed == [json(info_result) EXCEPT !.probes = InfoProbes(url),
                                                     !.answer = {out}]
             IN  IF ~info_result.success THEN probed
                 ELSE [probed EXCEPT
                         !.pc = "ready", !.response = {},
                         !.selected =
                             StreamFormat(info_result.formats, format_id).format_id]

\* stream_download with a downloader that tracks progress: one built with a
\* progress_id, which publishes 'extracting' as download_video_web does
stream_downloadTracked(rawUrl, format_id, out) ==
    /\ stream.pc = "idle"
    /\ stream' = StreamRequest(rawUrl, format_id, out)
    /\ IF is_valid_twitter_url(Strip(rawUrl))
       THEN SetProgress(NewProgressId(clock), ExtractingRec)
       ELSE UNCHANGED <<download_progress, poll>>
    /\ UNCHANGED <<clock, download_results, job, lastResp, info>>

\* lines 371-449 up to `return Response(generate(), ...)`: nothing of the
\* generator has run yet when the handler returns
stream_download(rawUrl, format_id, out) ==
    /\ stream.pc = "idle"
    /\ stream' = StreamRequest(rawUrl, format_id, out)
    /\ UNCHANGED <<jobVars, info>>

\* line 423: the response body is first iterated: subprocess.Popen(cmd, ...)
StreamOpen(started) ==
    /\ stream.pc = "ready"
    /\ stream' = IF started
                 THEN [stream EXCEPT !.pc = "streaming", !.popens = @ + 1, !.alive = TRUE]
                 \* Popen raises: no process exists, the generator ends
                 ELSE [stream EXCEPT !.pc = "closed", !.popens = @ + 1,
                                     !.ended = "popen_raised"]
    /\ UNCHANGED <<jobVars, info>>

\* lines 426-429: a chunk is read and yielded
StreamChunk ==
    /\ stream.pc = "streaming"
    /\ stream.chunks < MaxChunks
    /\ stream' = [stream EXCEPT !.chunks = @ + 1]
    /\ UNCHANGED <<jobVars, info>>

\* StreamClose with terminate() and wait() after the loop instead of in a
\* finally block
StreamCloseAfterLoop(why) ==
    /\ stream.pc = "streaming"
    /\ why = "disconnect" => stream.chunks > 0
    /\ stream' = IF why = "eof"
                 THEN [stream EXCEPT !.pc = "closed", !.alive = FALSE, !.reaped = TRUE,
                                     !.ended = why]
                 ELSE [stream EXCEPT !.pc = "closed", !.ended = why]
    /\ UNCHANGED <<jobVars, info>>

\* lines 427-432: read answers no bytes (or raises), or the client went away
\* while the generator stood at `yield` (GeneratorExit); the finally block
\* terminates the process and waits for it
StreamClose(why) ==
    /\ stream.pc = "streaming"
    /\ why = "disconnect" => stream.chunks > 0
    /\ stream' = [stream EXCEPT !.pc = "closed", !.alive = FALSE, !.reaped = TRUE,
                                !.ended = why]
    /\ UNCHANGED <<jobVars, info>>

\* the client goes away before the body is iterated: generate() never runs
StreamAbandon ==
    /\ stream.pc = "ready"
    /\ stream' = [stream EXCEPT !.pc = "closed", !.ended = "abandoned"]
    /\ UNCHANGED <<jobVars, info>>

(***************************************************************************)
(* The job path: creation, background runs, polling.                       *)
(***************************************************************************)
\* one step of the background thread of job j
RunWith(j, probeOutcomes, fetchOutcomes) ==
    \/ ThreadStart(j)
    \/ \E out \in probeOutcomes : Probe(j, out)
    \/ \E d \in HookArgs : ProgressHook(j, d)
    \/ \E out \in fetchOutcomes : FetchReturn(j, out)
    \/ StoreResult(j)
    \/ Final(j)

Run(j) == RunWith(j, BasicProbeOutcomes, BasicFetchOutcomes)

Next ==
    \/ Tick
    \/ \E j \in JobIds, u \in BasicUrls, f \in BasicFormatIds : download_video(j, u, f)
    \/ \E j \in JobIds : Run(j)
    \/ \E id \in PollIds : GetProgressRead(id)
    \/ GetProgressAnswer

Spec == Init /\ [][Next]_vars

\* The same system when no client keeps the answers it gets.
LiveNext ==
    \/ Tick
    \/ \E j \in JobIds, u \in BasicUrls, f \in BasicFormatIds : download_video(j, u, f)
    \/ \E j \in JobIds : Run(j)
    \/ \E id \in PollIds : GetProgressRead(id)
    \/ GetProgressUnobserved

\* Each started thread is scheduled, and each engine call returns or raises.
Fairness ==
    \A j \in JobIds :
        /\ WF_vars(ThreadStart(j))
        /\ WF_vars(\E out \in BasicProbeOutcomes : Probe(j, out))
        /\ WF_vars(\E out \in BasicFetchOutcomes : FetchReturn(j, out))
        /\ WF_vars(StoreResult(j))
        /\ WF_vars(Final(j))

LiveSpec == Init /\ [][LiveNext]_vars /\ Fairness

(***************************************************************************)
(* The three entry points that take a raw url, each driven once with every *)
(* url, format id and engine answer of the model.                          *)
(***************************************************************************)
EntryNext ==
    \/ \E u \in Urls, f \in FormatIds : download_video(1, u, f)
    \/ RunWith(1, ProbeOutcomes, FetchOutcomes)
    \/ \E u \in Urls, out \in ProbeOutcomes : get_video_info(u, out)
    \/ \E u \in Urls, f \in FormatIds, out \in ProbeOutcomes : stream_download(u, f, out)
    \/ \E started \in BOOLEAN : StreamOpen(started)
    \/ StreamChunk
    \/ \E why \in {"eof", "error", "disconnect"} : StreamClose(why)
    \/ StreamAbandon

EntrySpec == Init /\ [][EntryNext]_vars

(***************************************************************************)
(* POST /video_info driven once with every descriptor of up to MaxFormats  *)
(* variants whose height and bitrate are a number or missing: the inputs   *)
(* of the filter and of the sort of get_video_info_web.                    *)
(***************************************************************************)
StatusUrl == <<"https://", "x.com", "/", "user", "/", "status", "/", "123">>

\* video variants with every combination of a known or missing height and
\* bitrate, and one audio-only variant
RankChoices ==
    { [vcodec |-> "h264", height |-> h, tbr |-> t] :
          h \in {{}, {480}, {720}}, t \in {{}, {1000}, {2000}} }
    \cup { [vcodec |-> "none", height |-> {}, tbr |-> {128}] }

\* the variants of a descriptor are told apart by format_id, here the
\* position at which the engine lists them
RankDescriptors ==
    UNION { { [i \in 1..n |-> Fmt(ToString(i), c[i].vcodec, "u", c[i].height,
                                  c[i].tbr, None, None)] :
                  c \in [1..n -> RankChoices] } : n \in 0..MaxFormats }

RankOutcomes == { [kind |-> "info", formats |-> d, msg |-> <<>>] : d \in RankDescriptors }

RankNext == \E out \in RankOutcomes : get_video_info(StatusUrl, out)

RankSpec == Init /\ [][RankNext]_vars

(***************************************************************************)
(* Vocabulary of the properties.                                           *)
(***************************************************************************)
TerminalStatus == {"completed", "error"}

Terminal(id) ==
    /\ id \in DOMAIN download_progress
    /\ download_progress[id].status \in TerminalStatus

\* position of a status in Starting, Extracting, Downloading, Finished,
\* Completed; Error ends every sequence; 'unknown' precedes them all
Rank(status) ==
    CASE status = "unknown" -> 0
      [] status = "starting" -> 1
      [] status = "extracting" -> 2
      [] status = "downloading" -> 3
      [] status = "finished" -> 4
      [] status = "completed" -> 5
      [] status = "error" -> 6

\* the number a percent string such as "50.0%" stands for
PercentValue(percent) ==
    CASE percent[1] = "0" -> 0
      [] percent[1] = "50.0" -> 50
      [] percent[1] = "100" -> 100

\* the jobs that were handed the identifier id
JobsOf(id) == {j \in JobIds : Returned(j) /\ job[j].progress_id = id}

(***************************************************************************)
(* C1: any two POST /download requests that were answered with a job       *)
(* identifier were answered with distinct identifiers, so no identifier is *)
(* ever assigned to two jobs.                                              *)
(***************************************************************************)
C1_DistinctIds ==
    \A j, k \in JobIds :
        (j # k /\ Returned(j) /\ Returned(k)) => job[j].progress_id # job[k].progress_id

(***************************************************************************)
(* C2: for an identifier that belongs to a single job, a GET /progress     *)
(* answer never carries a status that is earlier in Starting, Extracting,  *)
(* Downloading, Finished, Completed (Error last) than the status of the    *)
(* previous answer for the same identifier.                                *)
(***************************************************************************)
C2_StatusNeverRegresses ==
    [][\A a \in lastResp, b \in lastResp' :
          (a.id = b.id /\ Cardinality(JobsOf(b.id)') <= 1)
              => Rank(b.progress.status) >= Rank(a.progress.status)]_vars

(***************************************************************************)
(* C3: a result exists only for a job whose status is Completed or Error:  *)
(* in every state a stored result belongs to an identifier whose stored    *)
(* status is terminal, and every GET /progress answer that carries a       *)
(* result carries a terminal status.                                       *)
(***************************************************************************)
C3_NoResultBeforeTerminal ==
    /\ \A id \in DOMAIN download_results : Terminal(id)
    /\ \A r \in lastResp :
           r.progress.result # {} => r.progress.status \in TerminalStatus

(***************************************************************************)
(* C4: a status of Completed or Error always comes with a result: every    *)
(* identifier whose stored status is terminal has a stored result, and     *)
(* every GET /progress answer with a terminal status carries a result.     *)
(***************************************************************************)
C4_TerminalHasResult ==
    /\ \A id \in DOMAIN download_progress :
           Terminal(id) => id \in DOMAIN download_results
    /\ \A r \in lastResp :
           r.progress.status \in TerminalStatus => r.progress.result # {}

\* a client was answered 'completed' together with a success result
C4_Witness ==
    \E r \in lastResp :
        /\ r.progress.status = "completed"
        /\ \E x \in r.progress.result : x.success

(***************************************************************************)
(* C5: once the stored status of an identifier is Completed or Error, no   *)
(* step of the system changes that status or the result stored for the     *)
(* identifier.                                                             *)
(***************************************************************************)
C5_TerminalIsFrozen ==
    [][\A id \in DOMAIN download_progress :
          (Terminal(id) /\ id \in DOMAIN download_results)
              => /\ download_progress'[id].status = download_progress[id].status
                 /\ download_results'[id] = download_results[id]]_vars

(***************************************************************************)
(* C6: answering GET /progress leaves the store as it was: the stored      *)
(* progress records and the stored results are the same before and after   *)
(* the handler's lookup and answer.                                        *)
(***************************************************************************)
C6_GetLeavesStoreUnchanged ==
    [][(poll.pc = "read" /\ poll'.pc = "idle")
          => /\ download_progress' = download_progress
             /\ download_results' = download_results]_vars

(***************************************************************************)
(* C7: for an identifier that belongs to a single job, the percent of a    *)
(* GET /progress answer is never below the percent of the previous answer  *)
(* for the same identifier.                                                *)
(***************************************************************************)
C7_PercentNeverDecreases ==
    [][\A a \in lastResp, b \in lastResp' :
          (a.id = b.id /\ Cardinality(JobsOf(b.id)') <= 1)
              => PercentValue(b.progress.percent) >= PercentValue(a.progress.percent)]_vars

(***************************************************************************)
(* C8: an identifier that POST /download never handed out is answered with *)
(* status 'unknown' and no result; no stored record has status 'unknown';  *)
(* and no record is stored under an identifier that was never handed out   *)
(* (a query creates none).                                                 *)
(***************************************************************************)
C8_UnknownOnlyAtQueryTime ==
    /\ \A r \in lastResp :
           ~r.issued => r.progress.status = "unknown" /\ r.progress.result = {}
    /\ \A id \in DOMAIN download_progress : download_progress[id].status # "unknown"
    /\ DOMAIN download_progress \subseteq Issued
    /\ DOMAIN download_results \subseteq Issued

\* a client asked for an identifier nobody was given, while a job exists
C8_Witness ==
    /\ \E r \in lastResp : ~r.issued /\ r.progress.status = "unknown"
    /\ Issued # {}

(***************************************************************************)
(* C9: in the three entry points that take a raw url, validation comes     *)
(* before any call of the engine.  A url that fails validation makes the   *)
(* job or request fail with 'Invalid Twitter URL format', the engine is    *)
(* called neither to probe nor to fetch, and the job goes from 'starting'  *)
(* to 'error' without publishing 'extracting'.  (A url that is empty after *)
(* stripping never reaches validation: it is turned down with 'URL is      *)
(* required', with no job registered and no call of the engine.)           *)
(***************************************************************************)
\* the failure a POST /download request or its job has reported so far
JobFailure(j) ==
    CASE job[j].pc = "rejected" -> {UrlRequired}
      [] job[j].pc \in {"store", "final"} -> job[j].result
      [] job[j].pc = "done" -> {download_results[job[j].progress_id]}
      [] OTHER -> {}

JobSettled(j) == job[j].pc \in {"rejected", "store", "final", "done"}

NoEngineCall ==
    [job |-> \A j \in JobIds : job[j].probes = 0 /\ job[j].fetches = 0 /\ ~job[j].extracted,
     info |-> info.probes = 0,
     stream |-> stream.probes = 0 /\ stream.popens = 0]

InvalidAnswer(url) == IF url = <<>> THEN {UrlRequired} ELSE {InvalidUrlResult}

C9_ValidationPrecedesEngine ==
    /\ \A j \in JobIds :
           /\ (JobSettled(j) /\ ~is_valid_twitter_url(job[j].url))
                  => JobFailure(j) = InvalidAnswer(job[j].url)
           /\ ~is_valid_twitter_url(job[j].url)
                  => job[j].probes = 0 /\ job[j].fetches = 0 /\ ~job[j].extracted
           /\ (job[j].pc = "done" /\ ~is_valid_twitter_url(job[j].url))
                  => download_progress[job[j].progress_id].status = "error"
           /\ job[j].pc = "rejected" => DOMAIN download_progress = {}
    /\ (info.pc = "answered" /\ ~is_valid_twitter_url(info.url))
           => info.response = InvalidAnswer(info.url)
    /\ ~is_valid_twitter_url(info.url) => NoEngineCall.info
    /\ (stream.pc # "idle" /\ ~is_valid_twitter_url(stream.url))
           => stream.pc = "answered" /\ stream.response = InvalidAnswer(stream.url)
    /\ ~is_valid_twitter_url(stream.url) => NoEngineCall.stream

\* all three entry points have turned down "not-a-url" or the like, the job
\* having run to its end
C9_Witness ==
    /\ job[1].pc = "done" /\ job[1].url # <<>> /\ ~is_valid_twitter_url(job[1].url)
    /\ info.pc = "answered" /\ info.url # <<>> /\ ~is_valid_twitter_url(info.url)
    /\ stream.pc = "answered" /\ stream.url # <<>> /\ ~is_valid_twitter_url(stream.url)

(***************************************************************************)
(* C10: every job that POST /download answered with an identifier          *)
(* eventually has status Completed or Error under that identifier, and     *)
(* from some point on for good, whatever the engine answers.               *)
(***************************************************************************)
C10_EveryJobSettles ==
    \A j \in JobIds : Returned(j) ~> [](Terminal(job[j].progress_id))

\* two runs under one identifier have both ended, one of them in 'error'
C10_Witness ==
    /\ \A j \in JobIds : job[j].pc = "done"
    /\ job[1].progress_id = job[2].progress_id
    /\ download_progress[job[1].progress_id].status = "error"
    /\ \E j \in JobIds : job[j].extracted

(***************************************************************************)
(* C11: a job whose Fetch failed ends in status Error with a failure       *)
(* result and never in Completed, also when the engine only reports the    *)
(* failure and returns normally; a job ends in Completed only if its Fetch *)
(* succeeded.  Stated on the step that publishes the final status of a     *)
(* run.                                                                    *)
(***************************************************************************)
\* the run of job j called ydl.download, and the call ended as `kinds` say
Fetched(j, kinds) ==
    job[j].fetches = 1 /\ \E a \in job[j].answer : a.kind \in kinds

C11_FetchFailureEndsInError ==
    [][\A j \in JobIds :
          (job[j].pc = "final" /\ job'[j].pc = "done")
              => LET status == download_progress'[job[j].progress_id].status
                 IN  /\ status = "completed" => Fetched(j, {"ok"})
                     /\ Fetched(j, {"quiet_failure", "DownloadError", "Exception"})
                            => /\ status = "error"
                               /\ \A r \in job[j].result : ~r.success]_vars

(***************************************************************************)
(* C12: when the format_id of a request is absent from the variant set of  *)
(* the probed descriptor, the outcome is a failure and no variant is       *)
(* fetched: a download job never calls ydl.download, and a streaming       *)
(* request is answered with an error payload and starts no engine process  *)
(* (it streams no other variant).                                          *)
(***************************************************************************)
FormatIdsOf(formats) == {formats[i].format_id : i \in 1..Len(formats)}

\* a format was asked for and the descriptor has no variant of that id
AbsentFormat(format_id, formats) ==
    Truthy(format_id) /\ format_id \notin FormatIdsOf(formats)

C12_AbsentFormatIsRefused ==
    /\ \A j \in JobIds :
           job[j].pc = "fetch" => ~AbsentFormat(job[j].format_id, job[j].formats)
    /\ \A a \in stream.answer :
           (a.kind = "info" /\ AbsentFormat(stream.format_id, a.formats))
               => /\ stream.pc = "answered"
                  /\ \A r \in stream.response : ~r.success
                  /\ stream.popens = 0
                  /\ stream.selected = None

(***************************************************************************)
(* C13: for a job started with no format id the variant chosen is the head *)
(* of the ranking (highest vertical resolution, total bitrate as the       *)
(* tiebreak, a missing number counting as zero), and the result of the job *)
(* that completes carries that variant's resolution in                     *)
(* format_info.resolution.  Stated on the step at which ydl.download       *)
(* returns and the result payload is built.                                *)
(***************************************************************************)
\* a missing height or bitrate counts as zero
NumOrZero(opt) == IF opt = {} THEN 0 ELSE Num(opt)

\* a ranks strictly before b: higher resolution, then higher bitrate
RanksBefore(a, b) ==
    \/ NumOrZero(a.height) > NumOrZero(b.height)
    \/ /\ NumOrZero(a.height) = NumOrZero(b.height)
       /\ NumOrZero(a.tbr) > NumOrZero(b.tbr)

\* the head of the ranking of a non-empty list: the first of the variants no
\* other variant ranks before
RankingHead(fs) ==
    LET top == {i \in 1..Len(fs) : \A k \in 1..Len(fs) : ~RanksBefore(fs[k], fs[i])}
    IN  fs[CHOOSE i \in top : \A k \in top : i <= k]

C13_NoFormatIdPicksRankingHead ==
    [][\A j \in JobIds :
          (job[j].pc = "fetch" /\ job'[j].pc = "store" /\ job[j].format_id = None)
              => \A r \in job'[j].result :
                     r.success
                         => r.format_info.resolution
                                = RankingHead(JobVideoFormats(job[j].formats)).resolution]_vars

(***************************************************************************)
(* C14: an error the engine raises during Probe or Fetch is classified by  *)
(* its message, whatever the letter case: 'private' or 'protected' gives   *)
(* the private-account failure, 'not found' the tweet-not-found failure,   *)
(* and any other error a failure that carries the original message; in the *)
(* job path and in the metadata and streaming paths alike.                 *)
(***************************************************************************)
\* the result kinds of the classification, by the `error` field of a payload
PrivateOrProtected == "Private account"
ContentNotFound == "Tweet not found"
EngineFailure == {"Download error", "Unexpected error"}

\* what the classification of a raised engine error has to answer
ClassifiedAs(msg, payload) ==
    LET lower == Lower(msg)
    IN  IF Contains(Lower(StrPrivate), lower) \/ Contains(StrProtected, lower)
        THEN payload.error = PrivateOrProtected
        ELSE IF Contains(StrNotFound, lower)
             THEN payload.error = ContentNotFound
             ELSE payload.error \in EngineFailure /\ payload.message = msg

RaisedKinds == {"DownloadError", "Exception"}

C14_ClassificationIgnoresCase ==
    /\ \A j \in JobIds : \A a \in job[j].answer : \A r \in job[j].result :
           a.kind \in RaisedKinds => ClassifiedAs(a.msg, r)
    /\ \A a \in info.answer : \A r \in info.response :
           a.kind \in RaisedKinds => ClassifiedAs(a.msg, r)
    /\ \A a \in stream.answer : \A r \in stream.response :
           a.kind \in RaisedKinds => ClassifiedAs(a.msg, r)

(***************************************************************************)
(* C15: in the streaming path every engine process that was started is     *)
(* terminated and reaped on every exit path of the response (end of the    *)
(* output, an error while forwarding, the client going away mid-stream):   *)
(* a process is alive only while the response is being streamed, a         *)
(* response that has ended leaves no process alive and has reaped the one  *)
(* it started, and no chunk is forwarded once the process is released.     *)
(***************************************************************************)
\* the response started an engine process
StreamStarted == stream.popens > 0 /\ stream.ended # "popen_raised"

C15_StreamProcessReleased ==
    /\ [](stream.alive => stream.pc = "streaming")
    /\ [](stream.pc = "closed" => /\ ~stream.alive
                                  /\ StreamStarted => stream.reaped)
    /\ [][stream'.chunks > stream.chunks => stream.alive /\ stream'.alive]_vars
    /\ [][stream.reaped => stream'.chunks = stream.chunks /\ ~stream'.alive]_vars

\* the client went away after the first chunk and the process was reaped
C15_Witness ==
    /\ stream.pc = "closed" /\ stream.ended = "disconnect"
    /\ stream.chunks > 0 /\ stream.popens = 1
    /\ ~stream.alive /\ stream.reaped

(***************************************************************************)
(* C16: when POST /download returns a job identifier the job is registered *)
(* in the store: a record is stored under every returned identifier, a     *)
(* GET /progress that arrives for a returned identifier finds a record and *)
(* does not answer 'unknown', and once the background run has made its     *)
(* first write (Extracting or Error) the record under the identifier is    *)
(* never the initial Starting record again.                                *)
(***************************************************************************)
C16_RegisteredBeforeReturn ==
    /\ [](Issued \subseteq DOMAIN download_progress)
    /\ [][(poll.pc = "idle" /\ poll'.pc = "read" /\ poll'.id \in Issued)
             => Referred'.status # "unknown"]_vars
    /\ [][(poll.pc = "read" /\ poll'.pc = "idle" /\ Referred.status # "unknown")
             => \A r \in lastResp' : r.progress.status # "unknown"]_vars
    /\ [][\A id \in DOMAIN download_progress :
             download_progress[id].status # "starting"
                 => download_progress'[id].status # "starting"]_vars

(***************************************************************************)
(* C17: for every descriptor, also one that mixes variants with and        *)
(* without a height or bitrate, the metadata request succeeds when a       *)
(* playable variant exists and lists the filtered variants ranked: by      *)
(* descending vertical resolution, then descending total bitrate, a        *)
(* missing number counting as zero, variants of equal keys in the order    *)
(* in which the descriptor lists them; the list is a permutation of the    *)
(* filtered input.                                                         *)
(***************************************************************************)
\* position of a variant in a list whose variants are pairwise distinct
Pos(x, fs) == CHOOSE i \in 1..Len(fs) : fs[i] = x

IsRankingOf(out, in) ==
    /\ Len(out) = Len(in)
    /\ {out[i] : i \in 1..Len(out)} = {in[i] : i \in 1..Len(in)}
    /\ \A i, k \in 1..Len(out) :
           i < k => /\ ~RanksBefore(out[k], out[i])
                    /\ ~RanksBefore(out[i], out[k]) => Pos(out[i], in) < Pos(out[k], in)

C17_RankingOrdersEveryList ==
    \A a \in info.answer : \A r \in info.response :
        (a.kind = "info" /\ InfoVideoFormats(a.formats) # <<>>)
            => /\ r.success
               /\ IsRankingOf(r.formats, InfoVideoFormats(a.formats))

(***************************************************************************)
(* C18: the streaming path never touches the job store: no step of a       *)
(* streaming request, whether it succeeds or fails, changes a stored       *)
(* progress record or result or creates a job; and a request whose         *)
(* validation, probe or variant resolution fails is answered with an error *)
(* payload and never starts an engine process.                             *)
(***************************************************************************)
\* the request could not be resolved to a variant to stream
StreamUnresolved ==
    \/ ~is_valid_twitter_url(stream.url)
    \/ \E a \in stream.answer :
           a.kind # "info" \/ InfoVideoFormats(a.formats) = <<>>

FailureKinds == {"none", "quiet_failure", "DownloadError", "Exception"}

\* the number of engine calls made so far for job j and for the streaming
\* request
JobCalls(j) == job[j].probes + job[j].fetches
StreamCalls == stream.probes + stream.popens

C19_NothingIsRetried ==
    /\ [](\A j \in JobIds :
             /\ job[j].probes <= 1 /\ job[j].fetches <= 1
             /\ job[j].fetches = 1 => job[j].probes = 1
             /\ job[j].pc = "fetch" => \A a \in job[j].answer : a.kind = "info")
    /\ [](/\ stream.probes <= 1 /\ stream.popens <= 1
          /\ stream.popens = 1
                 => stream.probes = 1 /\ \A a \in stream.answer : a.kind = "info")
    /\ [][\A j \in JobIds :
             ((\E a \in job[j].answer : a.kind \in FailureKinds) \/ job[j].pc = "done")
                 => JobCalls(j)' = JobCalls(j)]_vars
    /\ [][((\E a \in stream.answer : a.kind \in FailureKinds)
               \/ stream.ended = "popen_raised" \/ stream.ended = "error")
             => StreamCalls' = StreamCalls]_vars

\* the probe of a job raised, and so did the probe of a streaming request;
\* both have ended with one engine call each
C19_Witness ==
    /\ job[1].pc = "done" /\ job[1].probes = 1 /\ job[1].fetches = 0
    /\ download_results[job[1].progress_id].error = "Download error"
    /\ stream.pc = "answered" /\ stream.probes = 1 /\ stream.popens = 0
    /\ \E a \in stream.answer : a.kind = "DownloadError"

(***************************************************************************)
(* C20: a descriptor has video content when one of its variants is         *)
(* playable: it carries a video track and a source location.  A job whose  *)
(* descriptor has no playable variant ends in Error with the               *)
(* no-video-content result and never calls ydl.download; the job path and  *)
(* the metadata and streaming paths apply the same filter, so they agree   *)
(* on every descriptor about whether it has video content.                 *)
(***************************************************************************)
Playable(f) == f.vcodec # "none" /\ Truthy(f.url)

HasVideoContent(formats) == \E i \in 1..Len(formats) : Playable(formats[i])

C20_NoPlayableVariantIsNoVideoContent ==
    /\ \A j \in JobIds :
           /\ job[j].pc = "fetch" => HasVideoContent(job[j].formats)
           /\ (job[j].pc = "store" /\ job[j].result = {NoVideoContentResult})
                  => job[j].fetches = 0
    /\ \A a \in info.answer :
           (a.kind = "info" /\ ~HasVideoContent(a.formats))
               => info.response = {NoVideoContentResult}
    /\ \A a \in stream.answer :
           (a.kind = "info" /\ ~HasVideoContent(a.formats))
               => stream.response = {NoVideoContentResult}

(***************************************************************************)
(* C21: status and result of a job agree.  In every state, an identifier   *)
(* whose stored status is Completed has a stored success result, and one   *)
(* whose stored status is Error has a stored failure result whose message  *)
(* is the message of the progress record; and the same holds of the status *)
(* and the result that a GET /progress answer carries.                     *)
(***************************************************************************)
\* a progress record of terminal status and a result payload agree
Agree(progress, result) ==
    /\ progress.status = "completed" => result.success
    /\ progress.status = "error"
           => ~result.success /\ result.message = progress.message

C21_StatusAndResultAgree ==
    /\ \A id \in DOMAIN download_progress :
           Terminal(id)
               => /\ id \in DOMAIN download_results
                  /\ Agree(download_progress[id], download_results[id])
    /\ \A r \in lastResp :
           r.progress.status \in TerminalStatus
               => /\ r.progress.result # {}
                  /\ \A x \in r.progress.result : Agree(r.progress, x)

=============================================================================
